---------------------------- MODULE Spec2Model ----------------------------
(***************************************************************************)
(* A model of parse_questions.py: the document parser (parse_html_file),   *)
(* the batch runner (process_directory), the report formatter              *)
(* (format_output) and the command surface (main).                         *)
(*                                                                         *)
(* Text is a sequence of characters, each character a one-element string.  *)
(* A few words that the program treats as literals are single symbols:     *)
(* "Questions", "Question", "Unknown", "Student", "Error", "parsing" and   *)
(* "file".  "nbsp" is the character U+00A0.                                *)
(***************************************************************************)
EXTENDS Naturals, Sequences, FiniteSets, TLC

VARIABLES
    fs_input,          \* what args.directory names: "missing", "file", "dir"
    dir_files,         \* the directory: file name -> document
    out_dir_exists,    \* whether the output file's directory exists
    out_file,          \* the destination: [exists, content]
    pc,                \* the position of main
    html_files,        \* process_directory's html_files, as glob returned it
    todo,              \* what is left of sorted(html_files) in the for loop
    results,           \* process_directory's results
    formatted_output,  \* main's formatted_output
    exit_code,         \* <<main's return value>>, <<>> while it runs
    parse_calls,       \* the paths parse_html_file was called with, in order
    out_opened,        \* whether open(args.output_file, 'w') succeeded
    out_prev,          \* the destination as it was when main started
    fault              \* the output step that raised: "none", "makedirs",
                       \* "open", "write"

vars == <<fs_input, dir_files, out_dir_exists, out_file, pc, html_files, todo,
          results, formatted_output, exit_code, parse_calls, out_opened,
          out_prev, fault>>

-----------------------------------------------------------------------------
(* Bounds of the model.                                                    *)

MaxLabelLen == 3
MaxH1LabelLen == 1
MaxParas == 4
MaxFiles == 3
MaxDocs == 2
MaxQuestions == 2

-----------------------------------------------------------------------------
(* Characters and strings.                                                 *)

\* str.isspace(), which is also the regular expression class \s.
Whitespace == {" ", "\n", "nbsp"}

IsSpace(c) == c \in Whitespace

\* The regular expression class \d.
Digits == {"0", "1", "2", "3", "4", "5", "6", "7", "8", "9"}

\* The first index >= i of s whose character is not in set C, Len(s)+1 if none.
RECURSIVE SkipWhile(_, _, _)
SkipWhile(s, i, C) ==
    IF i <= Len(s) /\ s[i] \in C THEN SkipWhile(s, i + 1, C) ELSE i

\* The last index <= j of s whose character is not whitespace, 0 if none.
RECURSIVE LastNonSpace(_, _)
LastNonSpace(s, j) ==
    IF j >= 1 /\ IsSpace(s[j]) THEN LastNonSpace(s, j - 1) ELSE j

\* str.strip(): s without its leading and trailing whitespace.
Strip(s) ==
    LET a == SkipWhile(s, 1, Whitespace)
        b == LastNonSpace(s, Len(s))
    IN  IF a > b THEN <<>> ELSE SubSeq(s, a, b)

\* The first index >= i of s that holds a newline, Len(s)+1 if none.
RECURSIVE LineEnd(_, _)
LineEnd(s, i) ==
    IF i <= Len(s) /\ s[i] # "\n" THEN LineEnd(s, i + 1) ELSE i

NoMatch == [matched |-> FALSE, group |-> <<>>]

\* The tail \s*(.+) of the pattern at position p, the greedy \s* giving back
\* one character at a time down to position lo: (.+) needs one character
\* that is not a newline, and then runs to the end of the line.
RECURSIVE MatchLabel(_, _, _)
MatchLabel(s, lo, p) ==
    IF p <= Len(s) /\ s[p] # "\n"
    THEN [matched |-> TRUE, group |-> SubSeq(s, p, LineEnd(s, p) - 1)]
    ELSE IF p > lo THEN MatchLabel(s, lo, p - 1) ELSE NoMatch

\* The pattern Questions\s+\d+/\d+:\s*(.+) matched at position i of s.
MatchAt(s, i) ==
    IF ~(i <= Len(s) /\ s[i] = "Questions") THEN NoMatch
    ELSE LET a == SkipWhile(s, i + 1, Whitespace)
             b == SkipWhile(s, a, Digits)
             c == SkipWhile(s, b + 1, Digits)
         IN  IF /\ a > i + 1
                /\ b > a
                /\ b <= Len(s) /\ s[b] = "/"
                /\ c > b + 1
                /\ c <= Len(s) /\ s[c] = ":"
             THEN MatchLabel(s, c + 1, SkipWhile(s, c + 1, Whitespace))
             ELSE NoMatch

\* re.search(r'Questions\s+\d+/\d+:\s*(.+)', s): the leftmost match from i on.
RECURSIVE SearchFrom(_, _)
SearchFrom(s, i) ==
    IF i > Len(s) THEN NoMatch
    ELSE IF MatchAt(s, i).matched THEN MatchAt(s, i) ELSE SearchFrom(s, i + 1)

ReSearch(s) == SearchFrom(s, 1)

-----------------------------------------------------------------------------
(* parse_html_file.                                                        *)
(* A document is what BeautifulSoup finds in the file: the text of the     *)
(* first title and of the first h1 (present or not), whether there is a    *)
(* div, and the texts of the p elements of the first div, in document      *)
(* order.  readable is FALSE when opening, reading or decoding the file    *)
(* raises.                                                                 *)

UnknownStudent == <<"Unknown", " ", "Student">>
ErrorParsingFile == <<"Error", " ", "parsing", " ", "file">>

NoTag == [present |-> FALSE, text |-> <<>>]
Tag(t) == [present |-> TRUE, text |-> t]

\* TagText with a fault: the text of the element as it stands.
TagTextRaw(t) == t

\* title.get_text().strip(), h1.get_text().strip()
TagText(t) == Strip(t)

\* The name an element gives: the stripped group of the match, or the
\* name so far when the element is absent or does not match.
NameFrom(tag, student_name) ==
    IF ~tag.present THEN student_name
    ELSE LET match == ReSearch(TagText(tag.text))
         IN  IF match.matched THEN Strip(match.group) ELSE student_name

\* if student_name == "Unknown Student":
TryH1(student_name) == student_name = UnknownStudent

ExtractName(d) ==
    LET from_title == NameFrom(d.title, UnknownStudent)
    IN  IF TryH1(from_title) THEN NameFrom(d.h1, from_title) ELSE from_title

\* text = p.get_text().strip(); not text or text == '\xa0'
IsDelimiter(p) == Strip(p) = <<>> \/ Strip(p) = <<"nbsp">>

\* Accumulate with a fault: the texts are concatenated with no separator.
AccumulateNoSpace(current_question, text) == current_question \o text

\* current_question += " " + text, or current_question = text
Accumulate(current_question, text) ==
    IF current_question # <<>> THEN current_question \o <<" ">> \o text
    ELSE text

\* Flush with a fault: the accumulator is appended whatever it holds.
FlushAlways(questions, current_question) == Append(questions, current_question)

\* if current_question.strip(): questions.append(current_question.strip())
Flush(questions, current_question) ==
    IF Strip(current_question) # <<>>
    THEN Append(questions, Strip(current_question))
    ELSE questions

\* The for loop over the paragraphs from index i on, and the flush after it.
RECURSIVE SegmentFrom(_, _, _, _)
SegmentFrom(paragraphs, i, current_question, questions) ==
    IF i > Len(paragraphs) THEN Flush(questions, current_question)
    ELSE IF IsDelimiter(paragraphs[i])
         THEN SegmentFrom(paragraphs, i + 1,
                          IF Strip(current_question) # <<>> THEN <<>>
                          ELSE current_question,
                          Flush(questions, current_question))
         ELSE SegmentFrom(paragraphs, i + 1,
                          Accumulate(current_question, Strip(paragraphs[i])),
                          questions)

ExtractQuestions(d) ==
    IF d.has_div THEN SegmentFrom(d.paragraphs, 1, <<>>, <<>>) ELSE <<>>

\* ParseRaises with a fault: a fault of the file leaves parse_html_file.
ParseRaisesOnFault(d) == ~d.readable

\* try: ... except Exception: no fault of the file leaves parse_html_file.
ParseRaises(d) == FALSE

ParseHtmlFile(file_path, d) ==
    IF d.readable
    THEN [student_name |-> ExtractName(d),
          questions |-> ExtractQuestions(d),
          file_path |-> file_path]
    ELSE [student_name |-> ErrorParsingFile,
          questions |-> <<>>,
          file_path |-> file_path]

-----------------------------------------------------------------------------
(* process_directory.                                                      *)

\* The code point of a character of a path.
Code(c) ==
    CASE c = "." -> 46 [] c = "/" -> 47 [] c = "a" -> 97 [] c = "b" -> 98
      [] c = "c" -> 99 [] c = "d" -> 100 [] c = "h" -> 104 [] c = "l" -> 108
      [] c = "m" -> 109 [] c = "n" -> 110 [] c = "t" -> 116 [] c = "x" -> 120

\* s < t for Python strings: the first differing character decides, a proper
\* prefix is smaller.
RECURSIVE StrLess(_, _)
StrLess(s, t) ==
    IF t = <<>> THEN FALSE
    ELSE IF s = <<>> THEN TRUE
    ELSE IF Head(s) = Head(t) THEN StrLess(Tail(s), Tail(t))
    ELSE Code(Head(s)) < Code(Head(t))

RECURSIVE Insert(_, _)
Insert(x, l) ==
    IF l = <<>> THEN <<x>>
    ELSE IF StrLess(x, Head(l)) THEN <<x>> \o l
    ELSE <<Head(l)>> \o Insert(x, Tail(l))

RECURSIVE InsertionSort(_)
InsertionSort(l) ==
    IF l = <<>> THEN <<>> ELSE Insert(Head(l), InsertionSort(Tail(l)))

\* Sorted with a fault: the files are taken in the order glob returned them.
SortedAsGlobbed(l) == l

\* sorted(html_files)
Sorted(l) == InsertionSort(l)

\* args.directory, and os.path.join(directory_path, name)
DirectoryPath == <<"d">>
PathJoin(dir, name) == dir \o <<"/">> \o name
BaseName(path) == SubSeq(path, Len(DirectoryPath) + 2, Len(path))

EndsWith(s, suffix) ==
    /\ Len(s) >= Len(suffix)
    /\ SubSeq(s, Len(s) - Len(suffix) + 1, Len(s)) = suffix

\* The names of a directory that the pattern "*" + ext matches: those that
\* end with ext and do not start with a dot.
GlobNames(files, ext) ==
    {n \in DOMAIN files : EndsWith(n, ext) /\ n[1] # "."}

\* The orders in which a directory scan may return a set of names.
Orders(S) ==
    {f \in [1..Cardinality(S) -> S] : \A i, j \in 1..Cardinality(S) : i # j => f[i] # f[j]}

PathsOf(names) == [k \in 1..Len(names) |-> PathJoin(DirectoryPath, names[k])]

ExtHtml == <<".", "h", "t", "m", "l">>
ExtHtm == <<".", "h", "t", "m">>

-----------------------------------------------------------------------------
(* format_output.                                                          *)

DigitChar(n) == <<"0", "1", "2", "3", "4", "5", "6", "7", "8", "9">>[n + 1]

\* str(i) for i >= 0.
RECURSIVE Decimal(_)
Decimal(i) ==
    IF i < 10 THEN <<DigitChar(i)>>
    ELSE Decimal(i \div 10) \o <<DigitChar(i % 10)>>

\* question.split(): the maximal runs of characters that are not whitespace,
\* from index i on; word is the run being read.
RECURSIVE SplitFrom(_, _, _)
SplitFrom(s, i, word) ==
    IF i > Len(s) THEN (IF word = <<>> THEN <<>> ELSE <<word>>)
    ELSE IF IsSpace(s[i])
         THEN (IF word = <<>> THEN <<>> ELSE <<word>>) \o SplitFrom(s, i + 1, <<>>)
         ELSE SplitFrom(s, i + 1, Append(word, s[i]))

Split(s) == SplitFrom(s, 1, <<>>)

\* sep.join(parts)
RECURSIVE Join(_, _)
Join(sep, parts) ==
    IF parts = <<>> THEN <<>>
    ELSE IF Len(parts) = 1 THEN parts[1]
    ELSE parts[1] \o sep \o Join(sep, Tail(parts))

\* CleanQuestion with a fault: the question is rendered as it is.
CleanQuestionRaw(question) == question

\* clean_question = ' '.join(question.split())
CleanQuestion(question) == Join(<<" ">>, Split(question))

NameLine(result) == <<"-", " ">> \o result.student_name

QuestionPrefix(i) ==
    <<" ", " ", " ", " ", "-", " ", "Question", " ">> \o Decimal(i) \o <<":", " ">>

\* QuestionLine with a fault: enumerate counts from 0.
QuestionLineFromZero(i, question) ==
    QuestionPrefix(i - 1) \o CleanQuestion(question)

QuestionLine(i, question) == QuestionPrefix(i) \o CleanQuestion(question)

\* The lines one result appends to output.
ResultLines(result) ==
    <<NameLine(result)>>
    \o [i \in 1..Len(result.questions) |-> QuestionLine(i, result.questions[i])]
    \o <<(<<>>)>>

\* The list output after the loop over results from index k on.
RECURSIVE OutputLines(_, _)
OutputLines(rs, k) ==
    IF k > Len(rs) THEN <<>> ELSE ResultLines(rs[k]) \o OutputLines(rs, k + 1)

FormatOutput(rs) == Join(<<"\n">>, OutputLines(rs, 1))

-----------------------------------------------------------------------------
(* main, with the steps of process_directory and format_output it calls.   *)

NoFile == [exists |-> FALSE, content |-> <<>>]
File(content) == [exists |-> TRUE, content |-> content]

Prefixes(s) == {SubSeq(s, 1, k) : k \in 0..Len(s)}

\* NoResults with a fault: the empty batch is not told from a processed one.
NoResultsNever(rs) == FALSE

\* if not results:
NoResults(rs) == rs = <<>>

\* OpenForWriting with a fault: the file is opened for appending.
OpenForAppending(f) == File(f.content)

\* open(args.output_file, 'w'): the file is created, or cut to length 0.
OpenForWriting(f) == File(<<>>)

Return(code) ==
    /\ pc' = "done"
    /\ exit_code' = <<code>>

\* if not os.path.exists(args.directory): return 1
MainCheckExists ==
    /\ pc = "start"
    /\ IF fs_input = "missing"
       THEN Return(1)
       ELSE pc' = "isdir" /\ UNCHANGED exit_code
    /\ UNCHANGED <<fs_input, dir_files, out_dir_exists, out_file, html_files,
                   todo, results, formatted_output, parse_calls, out_opened,
                   out_prev, fault>>

\* if not os.path.isdir(args.directory): return 1
MainCheckIsDir ==
    /\ pc = "isdir"
    /\ IF fs_input # "dir"
       THEN Return(1)
       ELSE pc' = "glob" /\ UNCHANGED exit_code
    /\ UNCHANGED <<fs_input, dir_files, out_dir_exists, out_file, html_files,
                   todo, results, formatted_output, parse_calls, out_opened,
                   out_prev, fault>>

\* process_directory up to its loop: the two globs, each in the order the
\* directory scan gives, and the return of [] when nothing matched.
ProcessDirectoryGlob ==
    /\ pc = "glob"
    /\ \E html \in Orders(GlobNames(dir_files, ExtHtml)),
          htm \in Orders(GlobNames(dir_files, ExtHtm)) :
          /\ html_files' = PathsOf(html) \o PathsOf(htm)
          /\ results' = <<>>
          /\ IF html_files' = <<>>
             THEN pc' = "check_results" /\ todo' = <<>>
             ELSE pc' = "loop" /\ todo' = Sorted(html_files')
    /\ UNCHANGED <<fs_input, dir_files, out_dir_exists, out_file,
                   formatted_output, exit_code, parse_calls, out_opened,
                   out_prev, fault>>

\* One iteration of the loop of process_directory: parse_html_file on the
\* next path and the append of its result.  An exception that left
\* parse_html_file would leave process_directory and main too.
ProcessFile ==
    /\ pc = "loop"
    /\ todo # <<>>
    /\ LET file_path == Head(todo)
           d == dir_files[BaseName(file_path)]
       IN  /\ parse_calls' = Append(parse_calls, file_path)
           /\ IF ParseRaises(d)
              THEN pc' = "raised" /\ UNCHANGED <<results, todo>>
              ELSE /\ results' = Append(results, ParseHtmlFile(file_path, d))
                   /\ todo' = Tail(todo)
                   /\ pc' = "loop"
    /\ UNCHANGED <<fs_input, dir_files, out_dir_exists, out_file, html_files,
                   formatted_output, exit_code, out_opened, out_prev, fault>>

\* return results
ProcessDirectoryReturn ==
    /\ pc = "loop"
    /\ todo = <<>>
    /\ pc' = "check_results"
    /\ UNCHANGED <<fs_input, dir_files, out_dir_exists, out_file, html_files,
                   todo, results, formatted_output, exit_code, parse_calls,
                   out_opened, out_prev, fault>>

\* if not results: return 1
MainCheckResults ==
    /\ pc = "check_results"
    /\ IF NoResults(results)
       THEN Return(1)
       ELSE pc' = "format" /\ UNCHANGED exit_code
    /\ UNCHANGED <<fs_input, dir_files, out_dir_exists, out_file, html_files,
                   todo, results, formatted_output, parse_calls, out_opened,
                   out_prev, fault>>

\* formatted_output = format_output(results)
MainFormat ==
    /\ pc = "format"
    /\ formatted_output' = FormatOutput(results)
    /\ pc' = "makedirs"
    /\ UNCHANGED <<fs_input, dir_files, out_dir_exists, out_file, html_files,
                   todo, results, exit_code, parse_calls, out_opened,
                   out_prev, fault>>

\* if output_dir and not os.path.exists(output_dir): os.makedirs(output_dir),
\* which creates the directory or raises.
MainMakeDirs ==
    /\ pc = "makedirs"
    /\ IF out_dir_exists
       THEN pc' = "open" /\ UNCHANGED <<out_dir_exists, exit_code, fault>>
       ELSE \E raises \in BOOLEAN :
              IF raises
              THEN Return(1) /\ fault' = "makedirs" /\ UNCHANGED out_dir_exists
              ELSE pc' = "open" /\ out_dir_exists' = TRUE
                   /\ UNCHANGED <<exit_code, fault>>
    /\ UNCHANGED <<fs_input, dir_files, out_file, html_files, todo, results,
                   formatted_output, parse_calls, out_opened, out_prev>>

\* open(args.output_file, 'w', encoding='utf-8'), which opens the file or
\* raises and leaves it alone.
MainOpen ==
    /\ pc = "open"
    /\ \E raises \in BOOLEAN :
         IF raises
         THEN Return(1) /\ fault' = "open" /\ UNCHANGED <<out_file, out_opened>>
         ELSE /\ out_file' = OpenForWriting(out_file)
              /\ out_opened' = TRUE
              /\ pc' = "write"
              /\ UNCHANGED <<exit_code, fault>>
    /\ UNCHANGED <<fs_input, dir_files, out_dir_exists, html_files, todo,
                   results, formatted_output, parse_calls, out_prev>>

\* f.write(formatted_output) and the close of the file: all of the text is
\* written and main returns 0, or one of them raises after some part of the
\* text reached the file and main returns 1.
MainWrite ==
    /\ pc = "write"
    /\ \/ /\ out_file' = File(out_file.content \o formatted_output)
          /\ Return(0)
          /\ UNCHANGED fault
       \/ \E written \in Prefixes(formatted_output) :
            /\ out_file' = File(out_file.content \o written)
            /\ Return(1)
            /\ fault' = "write"
    /\ UNCHANGED <<fs_input, dir_files, out_dir_exists, html_files, todo,
                   results, formatted_output, parse_calls, out_opened,
                   out_prev>>

-----------------------------------------------------------------------------
(* The inputs.                                                             *)

SeqsUpTo(S, n) == UNION {[1..k -> S] : k \in 0..n}

Unreadable ==
    [readable |-> FALSE, title |-> NoTag, h1 |-> NoTag, has_div |-> FALSE,
     paragraphs |-> <<>>]

Document(title, h1, has_div, paragraphs) ==
    [readable |-> TRUE, title |-> title, h1 |-> h1, has_div |-> has_div,
     paragraphs |-> paragraphs]

\* "Questions 1/2:"
Heading == <<"Questions", " ", "1", "/", "2", ":">>

\* The documents of the runs of main: one with a name and two questions,
\* one with neither title, h1 nor div, and one that cannot be read.
DocPool ==
    {Document(Tag(Heading \o <<" ", "a">>), NoTag, TRUE,
              <<(<<"a">>), (<<>>), (<<"b", "\n", " ", "a">>)>>),
     Document(NoTag, NoTag, FALSE, <<>>),
     Unreadable}

NamePool ==
    {<<"a">> \o ExtHtml, <<"c">> \o ExtHtml, <<"a">> \o ExtHtm,
     <<"b">> \o ExtHtm, <<"n", ".", "t", "x", "t">>, ExtHtml}

Directories ==
    UNION {[S -> DocPool] : S \in {T \in SUBSET NamePool : Cardinality(T) <= MaxFiles}}

OldReport == <<"x", "\n">>

InitRun ==
    /\ html_files = <<>>
    /\ todo = <<>>
    /\ results = <<>>
    /\ formatted_output = <<>>
    /\ exit_code = <<>>
    /\ parse_calls = <<>>
    /\ out_opened = FALSE
    /\ fault = "none"

Init ==
    /\ fs_input \in {"missing", "file", "dir"}
    /\ dir_files \in (IF fs_input = "dir" THEN Directories ELSE {<<>>})
    /\ out_dir_exists \in BOOLEAN
    /\ out_file \in (IF out_dir_exists THEN {NoFile, File(OldReport)} ELSE {NoFile})
    /\ out_prev = out_file
    /\ pc = "start"
    /\ InitRun

Next ==
    \/ MainCheckExists
    \/ MainCheckIsDir
    \/ ProcessDirectoryGlob
    \/ ProcessFile
    \/ ProcessDirectoryReturn
    \/ MainCheckResults
    \/ MainFormat
    \/ MainMakeDirs
    \/ MainOpen
    \/ MainWrite

Spec == Init /\ [][Next]_vars

-----------------------------------------------------------------------------
(* parse_html_file on one document, drawn from the documents that differ   *)
(* in title and h1 (SpecName) or in their paragraphs (SpecQuestions).      *)

OneName == <<"a">> \o ExtHtml
OnePath == PathJoin(DirectoryPath, OneName)

LabelChars == {" ", "\n", "a", "b"}
Leads == {<<>>, <<" ">>}
Headings ==
    {Heading,
     <<"Questions", "\n", " ", "1", "2", "/", "0", "1", ":">>,
     <<"x", " ">> \o Heading}
NoHeadings == {<<"Questions", "1", "/", "2", ":">>, <<"x">>}
Labels == SeqsUpTo(LabelChars, MaxLabelLen) \cup {UnknownStudent}

Titles ==
    {NoTag} \cup
    {Tag(lead \o pre \o lab) :
        lead \in Leads, pre \in Headings \cup NoHeadings, lab \in Labels}

H1Labels == SeqsUpTo({" ", "c"}, MaxH1LabelLen) \cup {UnknownStudent}
H1s == {NoTag} \cup {Tag(pre \o lab) : pre \in {Heading, <<"x">>}, lab \in H1Labels}

ParaTexts ==
    {<<>>, <<" ">>, <<"nbsp">>, <<"a">>, <<"b">>, <<" ", "a", "\n", "b", " ">>}

NameDocs == {Document(t, h, FALSE, <<>>) : t \in Titles, h \in H1s}

QuestionDocs ==
    {Document(NoTag, NoTag, FALSE, <<>>)} \cup
    {Document(NoTag, NoTag, TRUE, ps) : ps \in SeqsUpTo(ParaTexts, MaxParas)}

InitParse(docs) ==
    /\ fs_input = "dir"
    /\ \E d \in docs : dir_files = [n \in {OneName} |-> d]
    /\ out_dir_exists = TRUE
    /\ out_file = NoFile
    /\ out_prev = NoFile
    /\ pc = "loop"
    /\ html_files = <<OnePath>>
    /\ todo = <<OnePath>>
    /\ results = <<>>
    /\ formatted_output = <<>>
    /\ exit_code = <<>>
    /\ parse_calls = <<>>
    /\ out_opened = FALSE
    /\ fault = "none"

InitName == InitParse(NameDocs)
InitQuestions == InitParse(QuestionDocs)

NextParse == ProcessFile \/ ProcessDirectoryReturn

SpecName == InitName /\ [][NextParse]_vars
SpecQuestions == InitQuestions /\ [][NextParse]_vars

-----------------------------------------------------------------------------
(* format_output on the results of a batch.                                *)

StudentNames == {UnknownStudent, <<"a", " ", "b">>}
QuestionTexts == {<<"a">>, <<"b", "\n", " ", "nbsp", "a">>}

\* The paths of a batch, in sorted order.
BatchPaths ==
    Sorted(PathsOf(CHOOSE l \in Orders({n \in NamePool : EndsWith(n, ExtHtm) \/ EndsWith(n, ExtHtml)}) : TRUE))

ResultBodies ==
    {[student_name |-> ErrorParsingFile, questions |-> <<>>]} \cup
    [student_name : StudentNames, questions : SeqsUpTo(QuestionTexts, MaxQuestions)]

Batches ==
    {[k \in 1..Len(b) |-> [student_name |-> b[k].student_name,
                           questions |-> b[k].questions,
                           file_path |-> BatchPaths[k]]] :
        b \in SeqsUpTo(ResultBodies, MaxDocs) \ {<<>>}}

InitFormat ==
    /\ fs_input = "dir"
    /\ dir_files = <<>>
    /\ out_dir_exists = TRUE
    /\ out_file = NoFile
    /\ out_prev = NoFile
    /\ pc = "format"
    /\ results \in Batches
    /\ html_files = [k \in 1..Len(results) |-> results[k].file_path]
    /\ todo = <<>>
    /\ formatted_output = <<>>
    /\ exit_code = <<>>
    /\ parse_calls = html_files
    /\ out_opened = FALSE
    /\ fault = "none"

NextFormat == MainFormat

SpecFormat == InitFormat /\ [][NextFormat]_vars

-----------------------------------------------------------------------------
(* What the properties are stated with.                                    *)

Range(f) == {f[k] : k \in DOMAIN f}

\* The elements of a finite set of numbers, in increasing order.
RECURSIVE Ascending(_)
Ascending(S) ==
    IF S = {} THEN <<>>
    ELSE LET m == CHOOSE x \in S : \A y \in S : x <= y
         IN  <<m>> \o Ascending(S \ {m})

\* The maximal runs of consecutive elements of s that are not separators,
\* in the order of s.
Runs(s, Sep(_)) ==
    LET starts == Ascending({i \in 1..Len(s) : ~Sep(s[i]) /\ (i = 1 \/ Sep(s[i - 1]))})
        last(i) == CHOOSE j \in i..Len(s) :
                      /\ \A k \in i..j : ~Sep(s[k])
                      /\ j = Len(s) \/ Sep(s[j + 1])
    IN  [k \in 1..Len(starts) |-> SubSeq(s, starts[k], last(starts[k]))]

\* The lines of a text: what stands between its newlines.
Lines(text) ==
    LET cuts == <<0>> \o Ascending({i \in 1..Len(text) : text[i] = "\n"})
                     \o <<Len(text) + 1>>
    IN  [k \in 1..Len(cuts) - 1 |-> SubSeq(text, cuts[k] + 1, cuts[k + 1] - 1)]

\* A paragraph with no text but whitespace.
IsBlank(p) == \A i \in 1..Len(p) : p[i] \in Whitespace

\* The index of the first line of the k-th result in the report.
RECURSIVE FirstLine(_, _)
FirstLine(rs, k) ==
    IF k = 1 THEN 1 ELSE FirstLine(rs, k - 1) + Len(rs[k - 1].questions) + 2

\* process_directory has returned its results to main.
Returned ==
    \/ pc \in {"check_results", "format", "makedirs", "open", "write"}
    \/ pc = "done" /\ fs_input = "dir"

\* The names of the directory that are input documents.
InputNames == GlobNames(dir_files, ExtHtml) \cup GlobNames(dir_files, ExtHtm)

\* The document a result was made from.
DocOf(result) == dir_files[BaseName(result.file_path)]

\* The document of the runs of SpecName and SpecQuestions, and its result.
TheDoc == dir_files[OneName]
Parsed == results # <<>>

HeadingOnly(text) ==
    \E lead \in Leads, pre \in Headings, n \in 0..Len(text) :
        /\ Len(text) = Len(lead) + Len(pre) + n
        /\ SubSeq(text, 1, Len(lead) + Len(pre)) = lead \o pre
        /\ \A i \in (Len(text) - n + 1)..Len(text) : text[i] \in Whitespace

\* An element that is absent, or holds no "Questions", or holds the heading
\* and nothing after it.
SuppliesNoLabel(tag) ==
    \/ ~tag.present
    \/ "Questions" \notin Range(tag.text)
    \/ HeadingOnly(tag.text)

TagMatch(tag) == IF tag.present THEN ReSearch(Strip(tag.text)) ELSE NoMatch

-----------------------------------------------------------------------------
(* The properties.                                                         *)

\* C1: process_directory returns one result per input document, in the
\* sorted order of the paths: as many results as documents the directory
\* holds, each with the path of an input document, the paths strictly
\* ascending, and a document that cannot be read has its sentinel entry.
C1_OneResultPerInput ==
    /\ pc # "raised"
    /\ Returned =>
        /\ Len(results) = Cardinality(InputNames)
        /\ Len(results) = Len(html_files)
        /\ \A k \in 1..Len(results) :
            /\ results[k].file_path \in Range(html_files)
            /\ BaseName(results[k].file_path) \in InputNames
            /\ k < Len(results) =>
                 StrLess(results[k].file_path, results[k + 1].file_path)
            /\ ~DocOf(results[k]).readable =>
                 results[k].student_name = ErrorParsingFile

\* C1 witness: three documents, returned by glob in another order than the
\* sorted one, one of them unreadable, all three in the results.
C1_Witness ==
    /\ Returned
    /\ Len(results) = 3
    /\ html_files # [k \in 1..3 |-> results[k].file_path]
    /\ \E k \in 1..3 : ~DocOf(results[k]).readable

\* The batch of a directory, as a function of the directory alone.
BatchOf(files) ==
    LET names == GlobNames(files, ExtHtml) \cup GlobNames(files, ExtHtm)
        paths == Sorted(PathsOf(CHOOSE l \in Orders(names) : TRUE))
    IN  [k \in 1..Len(paths) |-> ParseHtmlFile(paths[k], files[BaseName(paths[k])])]

Without(files, name) == [n \in DOMAIN files \ {name} |-> files[n]]

\* C2: a fault of one document is isolated: the batch is not aborted, the
\* document's result is the sentinel, and the results of the other
\* documents are the batch of the directory without the faulting document.
C2_FaultIsolated ==
    /\ pc # "raised"
    /\ Returned =>
        \A k \in 1..Len(results) :
            ~DocOf(results[k]).readable =>
                /\ results[k].student_name = ErrorParsingFile
                /\ results[k].questions = <<>>
                /\ SubSeq(results, 1, k - 1) \o SubSeq(results, k + 1, Len(results))
                     = BatchOf(Without(dir_files, BaseName(results[k].file_path)))

\* C2 witness: an unreadable document between two readable ones, the one
\* after it with its own name and questions.
C2_Witness ==
    /\ Returned
    /\ Len(results) = 3
    /\ ~DocOf(results[2]).readable
    /\ DocOf(results[1]).readable
    /\ DocOf(results[3]).readable
    /\ results[3].student_name = <<"a">>
    /\ Len(results[3].questions) = 2

\* C3: the name is the first match in the order title, h1, sentinel: the
\* title's stripped label whenever the title matches, the h1's when only the
\* h1 matches, "Unknown Student" when neither matches.
C3_FirstMatchWins ==
    Parsed =>
        LET t == TagMatch(TheDoc.title)
            h == TagMatch(TheDoc.h1)
            name == results[1].student_name
        IN  /\ t.matched => name = Strip(t.group)
            /\ ~t.matched /\ h.matched => name = Strip(h.group)
            /\ ~t.matched /\ ~h.matched => name = UnknownStudent

\* C4: the name of a parsed document is never empty, and a title that holds
\* the heading and no label leaves the name "Unknown Student" unless the h1
\* supplies a label.
C4_NameNeverEmpty ==
    Parsed =>
        /\ results[1].student_name # <<>>
        /\ Strip(results[1].student_name) = results[1].student_name
        /\ (/\ TheDoc.title.present
            /\ HeadingOnly(TheDoc.title.text)
            /\ SuppliesNoLabel(TheDoc.h1)) =>
               results[1].student_name = UnknownStudent

\* C4 witness: the title "Questions 1/2: " and no h1.
C4_Witness ==
    /\ Parsed
    /\ TheDoc.title = Tag(Heading \o <<" ">>)
    /\ ~TheDoc.h1.present
    /\ results[1].student_name = UnknownStudent

\* C5: the questions are the maximal runs of consecutive paragraphs that are
\* not blank, in document order, each run its paragraphs' stripped texts
\* joined by single spaces.
C5_QuestionsAreRuns ==
    (Parsed /\ TheDoc.has_div) =>
        LET runs == Runs(TheDoc.paragraphs, IsBlank)
        IN  /\ Len(results[1].questions) = Len(runs)
            /\ \A k \in 1..Len(runs) :
                 results[1].questions[k] =
                     Join(<<" ">>, [i \in 1..Len(runs[k]) |-> Strip(runs[k][i])])

\* C5 witness: a paragraph, a delimiter, and two paragraphs that no
\* delimiter follows: two questions, the second one joined.
C5_Witness ==
    /\ Parsed
    /\ TheDoc.paragraphs = <<(<<"a">>), (<<>>), (<<"b">>), (<<"a">>)>>
    /\ results[1].questions = <<(<<"a">>), (<<"b", " ", "a">>)>>

\* The paragraphs without each blank paragraph that follows a blank one.
Collapsed(ps) ==
    SelectSeq([i \in 1..Len(ps) |->
                  IF i > 1 /\ IsBlank(ps[i]) /\ IsBlank(ps[i - 1])
                  THEN <<"dropped">> ELSE <<"kept", ps[i]>>],
              LAMBDA e : e[1] = "kept")

\* C6: no question is empty or has leading or trailing whitespace, there
\* are no questions without a div or without paragraphs, and consecutive
\* delimiters act as one: there is one question less than there are
\* delimiter groups strictly inside the text, and dropping the repeated
\* delimiters changes nothing.
C6_NoEmptyQuestion ==
    Parsed =>
        LET qs == results[1].questions
            ps == TheDoc.paragraphs
        IN  /\ \A k \in 1..Len(qs) :
                 /\ qs[k] # <<>>
                 /\ ~IsSpace(qs[k][1])
                 /\ ~IsSpace(qs[k][Len(qs[k])])
            /\ (~TheDoc.has_div \/ ps = <<>>) => qs = <<>>
            /\ Len(qs) <= Cardinality({i \in 1..Len(ps) : ~IsBlank(ps[i])})
            /\ TheDoc.has_div =>
                 qs = SegmentFrom([i \in 1..Len(Collapsed(ps)) |-> Collapsed(ps)[i][2]],
                                  1, <<>>, <<>>)

\* C6 witness: a leading delimiter, a paragraph with text, and two
\* consecutive delimiters among the paragraphs.
C6_Witness ==
    /\ Parsed
    /\ Len(TheDoc.paragraphs) >= 4
    /\ IsBlank(TheDoc.paragraphs[1])
    /\ \E i \in 2..Len(TheDoc.paragraphs) - 1 :
         IsBlank(TheDoc.paragraphs[i]) /\ IsBlank(TheDoc.paragraphs[i + 1])
    /\ Len(results[1].questions) >= 1

Formatted == pc = "makedirs"

\* C7: the report is, for each result in batch order, the line "- <name>",
\* one line "    - Question <i>: ..." per question with i from 1 to the
\* number of questions, and an empty line; the lines joined by newlines.
C7_ReportLayout ==
    Formatted =>
        LET lines == Lines(formatted_output)
        IN  /\ Len(lines) = FirstLine(results, Len(results) + 1) - 1
            /\ \A k \in 1..Len(results) :
                 LET at == FirstLine(results, k)
                     n == Len(results[k].questions)
                 IN  /\ lines[at] = <<"-", " ">> \o results[k].student_name
                     /\ \A i \in 1..n :
                          /\ Len(lines[at + i]) > 11
                          /\ SubSeq(lines[at + i], 1, 11) =
                               <<" ", " ", " ", " ", "-", " ", "Question", " ",
                                 DigitChar(i), ":", " ">>
                     /\ lines[at + n + 1] = <<>>

\* C7 witness: a result with no question followed by one with two.
C7_Witness ==
    /\ Formatted
    /\ Len(results) = 2
    /\ results[1].questions = <<>>
    /\ Len(results[2].questions) = 2
    /\ Len(Lines(formatted_output)) = 6

\* The text of the line of question i of result k, after its prefix.
Rendered(k, i) ==
    LET line == Lines(formatted_output)[FirstLine(results, k) + i]
    IN  SubSeq(line, 12, Len(line))

\* C8: a rendered question holds no whitespace but single spaces between
\* its words, and its words are those of the question, in their order.
C8_WhitespaceNormalized ==
    Formatted =>
        \A k \in 1..Len(results) : \A i \in 1..Len(results[k].questions) :
            LET text == Rendered(k, i)
            IN  /\ text # <<>>
                /\ ~IsSpace(text[1])
                /\ ~IsSpace(text[Len(text)])
                /\ \A j \in 1..Len(text) :
                     IsSpace(text[j]) => text[j] = " " /\ ~IsSpace(text[j + 1])
                /\ Runs(text, IsSpace) = Runs(results[k].questions[i], IsSpace)

\* C8 witness: a question with a newline and more whitespace between two
\* words, rendered with one space.
C8_Witness ==
    /\ Formatted
    /\ results[1].questions # <<>>
    /\ results[1].questions[1] = <<"b", "\n", " ", "nbsp", "a">>
    /\ Rendered(1, 1) = <<"b", " ", "a">>

Done == pc = "done"

WrittenWhole == out_opened /\ fault = "none" /\ out_file = File(formatted_output)

\* C9: main returns 0 exactly when a document was processed and the report
\* written, and 1 when the input path is missing or no directory, when the
\* directory holds no input document, and when creating the directory or
\* writing the file raised; in the first three cases no document is parsed
\* and the output file is neither opened nor written.
C9_ExitCode ==
    /\ pc # "raised"
    /\ Done => exit_code \in {<<0>>, <<1>>}
    /\ ~Done => exit_code = <<>>
    /\ Done => (exit_code = <<0>> <=> (parse_calls # <<>> /\ results # <<>> /\ WrittenWhole))
    /\ (Done /\ (fs_input # "dir" \/ InputNames = {} \/ fault # "none")) =>
          exit_code = <<1>>
    /\ (fs_input # "dir" \/ InputNames = {}) =>
          /\ parse_calls = <<>>
          /\ ~out_opened
          /\ out_file = out_prev
          /\ pc \notin {"loop", "format", "makedirs", "open", "write"}

\* C9 witness: a directory that holds files but no input document: main
\* returned 1 and left the destination alone.
C9_Witness ==
    /\ Done
    /\ fs_input = "dir"
    /\ DOMAIN dir_files # {}
    /\ InputNames = {}
    /\ exit_code = <<1>>

\* C10 as stated: after a fault of the output step the destination is what
\* it was before the run.
C10_AllOrNothing ==
    (Done /\ fault # "none") => out_file = out_prev

\* C10 amended: a fault in creating the directory or opening the file
\* leaves the destination what it was; a fault in writing leaves it holding
\* a prefix of the report, which may be empty.
C10_FaultLeavesPrefix ==
    /\ (fault \in {"makedirs", "open"}) => (out_file = out_prev /\ ~out_opened)
    /\ fault = "write" =>
          /\ out_file.exists
          /\ out_file.content \in Prefixes(formatted_output)
    /\ (Done /\ exit_code = <<0>>) => out_file = File(formatted_output)

\* C10 witness: the write raised on a destination that held a report: the
\* old report is gone and the file is empty.
C10_Witness ==
    /\ Done
    /\ fault = "write"
    /\ out_prev = File(OldReport)
    /\ out_file = File(<<>>)

=============================================================================
